---------------------------- MODULE Spec2Model ----------------------------
(***************************************************************************)
(* A model of brawn: the supervised STDP trainer (models/trainers.py), the *)
(* Zeng plasticity rule (models/synapses.py), the IONetwork run            *)
(* (models/networks.py) and the spike tools (tools/data.py, tools/image.py)*)
(*                                                                         *)
(* Time is counted in simulation timesteps.  Real quantities (weights,     *)
(* traces, rates) are fixed-point integers with Scale units for 1.0.       *)
(***************************************************************************)
EXTENDS Integers, Sequences, FiniteSets, TLC

(***************************************************************************)
(* Bounds of the model.                                                    *)
(***************************************************************************)
\* Timesteps per 5 ms.  The program steps at dt = 0.1 ms (50 timesteps per
\* 5 ms); every time of parameters.py is a whole multiple of 5 ms.
StepsPer5Ms == 1
\* Last timestep of the single-synapse specification.
MaxSynT == 5
\* Neurons per class and number of classes of the output population (the
\* program is configured with 5 and 10).
class_size == 2
class_amount == 2
\* Longest training set and test set a trainer is built with.
MaxTrain == 2
MaxTest == 2
\* Latest spike time, and largest spike count of a neuron, handed to the
\* tool functions.
MaxSpikeTime == 2
MaxCount == 2
\* Largest number of pixels of a pixel map handed to image2spikes.
MaxPixels == 6
\* Largest number of customize() calls of a client of NeuronPrep.
MaxPreps == 2

(***************************************************************************)
(* parameters.py                                                           *)
(***************************************************************************)
ms5 == StepsPer5Ms
dt == 1
Scale == 1000

\* cycle_time = 30 * ms
cycle_time == 6 * ms5
train_time == 2 * cycle_time

train_data_size == 150
train_step == 2
active_threshold == 2
inactive_threshold == 0

\* T00 = 5 * ms, T01 = 10 * ms, T02 = 15 * ms, T03 = 20 * ms
T00 == 1 * ms5
T01 == 2 * ms5
T02 == 3 * ms5
T03 == 4 * ms5
T10 == cycle_time + T00
T11 == cycle_time + T01
T12 == cycle_time + T02
T13 == cycle_time + T03

progress_monitoring == [active |-> TRUE, step |-> 260]
websocket_logging == [active |-> FALSE]

\* tau_LTP = tau_LTD = 20 * ms
tau_LTP == 4 * ms5
tau_LTD == 4 * ms5
ALTP == 1 * Scale
\* A depression amplitude of the wrong sign.
ALTD_positive == 1 * Scale
ALTD == (-1) * Scale
aLTP == 20
aLTD == 24
w_max == 400

(***************************************************************************)
(* models/synapses.py : ZengSTDPSynapses                                   *)
(***************************************************************************)
\* Fixed-point product of two fixed-point numbers, rounded towards zero.
Mul(a, b) == IF a * b >= 0 THEN (a * b) \div Scale
                           ELSE -((-(a * b)) \div Scale)

\* exp(-d / tau) for d timesteps, in fixed point: one step of decay is a
\* factor (tau - 1) / tau.
RECURSIVE exp(_, _)
exp(d, tau) == IF d <= 0 THEN Scale
               ELSE (exp(d - 1, tau) * (tau - 1)) \div tau

clip_unbounded(x, lo, hi) == IF x < lo THEN lo ELSE x
clip(x, lo, hi) == IF x < lo THEN lo ELSE IF x > hi THEN hi ELSE x

\* int(cond) of the equations.
int(b) == IF b THEN 1 ELSE 0

\* The state of a synapse right after ZengSTDPSynapses.__init__, with
\* initial weight w0 (rand() * w_max).  The last spike times start at
\* -1 * ms: "if negative, no spike happened yet".
no_spike_yet == -1
NewSynapse(w0) == [t_prs |-> no_spike_yet, t_pos |-> no_spike_yet,
                   P |-> 0, Q |-> 0, w |-> w0]

\* on_pre_eqs with a postsynaptic spike of the same instant taken as earlier.
on_pre_eqs_same_time(s, t) ==
    LET t_prs1 == int(s.t_prs < 0) * t + int(s.t_prs >= 0) * s.t_prs
        P1 == Mul(s.P, exp(t - t_prs1, tau_LTP)) + ALTP
        applicable == int(0 <= s.t_pos /\ s.t_pos <= t)
        val_dep == applicable * Mul(Mul(aLTD, s.Q), exp(t - s.t_pos, tau_LTD))
    IN  [s EXCEPT !.t_prs = t, !.P = P1,
                  !.w = clip(s.w + val_dep, 0, w_max)]

\* on_pre_eqs at time t (the current injected into the post neuron belongs
\* to the neuron dynamics and is not part of the synapse state).
on_pre_eqs(s, t) ==
    LET t_prs1 == int(s.t_prs < 0) * t + int(s.t_prs >= 0) * s.t_prs
        P1 == Mul(s.P, exp(t - t_prs1, tau_LTP)) + ALTP
        applicable == int(0 <= s.t_pos /\ s.t_pos < t)
        val_dep == applicable * Mul(Mul(aLTD, s.Q), exp(t - s.t_pos, tau_LTD))
    IN  [s EXCEPT !.t_prs = t, !.P = P1,
                  !.w = clip(s.w + val_dep, 0, w_max)]

\* on_post_eqs that records the time of the first postsynaptic spike only.
on_post_eqs_keeps_time(s, t) ==
    LET t_pos1 == int(s.t_pos < 0) * t + int(s.t_pos >= 0) * s.t_pos
        Q1 == Mul(s.Q, exp(t - t_pos1, tau_LTD)) + ALTD
        applicable == int(0 <= s.t_prs /\ s.t_prs < t)
        val_pot == applicable * Mul(Mul(aLTP, s.P), exp(t - s.t_prs, tau_LTP))
    IN  [s EXCEPT !.t_pos = t_pos1, !.Q = Q1,
                  !.w = clip(s.w + val_pot, 0, w_max)]

\* on_post_eqs at time t.
on_post_eqs(s, t) ==
    LET t_pos1 == int(s.t_pos < 0) * t + int(s.t_pos >= 0) * s.t_pos
        Q1 == Mul(s.Q, exp(t - t_pos1, tau_LTD)) + ALTD
        applicable == int(0 <= s.t_prs /\ s.t_prs < t)
        val_pot == applicable * Mul(Mul(aLTP, s.P), exp(t - s.t_prs, tau_LTP))
    IN  [s EXCEPT !.t_pos = t, !.Q = Q1,
                  !.w = clip(s.w + val_pot, 0, w_max)]

(***************************************************************************)
(* Python lists are sequences; list.remove drops the first occurrence.     *)
(***************************************************************************)
RECURSIVE remove(_, _)
remove(list, x) ==
    IF list = <<>> THEN <<>>
    ELSE IF Head(list) = x THEN Tail(list)
    ELSE <<Head(list)>> \o remove(Tail(list), x)

Elems(list) == {list[i] : i \in DOMAIN list}

\* [x for _ in range(n)]
Repeat(x, n) == [i \in 1..n |-> x]

(***************************************************************************)
(* tools/image.py                                                          *)
(***************************************************************************)
\* The pixels of a pixel map in the order the two nested loops visit them.
RECURSIVE ScanOrder(_)
ScanOrder(pixel_map) ==
    IF pixel_map = <<>> THEN <<>>
    ELSE Head(pixel_map) \o ScanOrder(Tail(pixel_map))

\* The loop body of image2spikes with the test pixel >= 128.
RECURSIVE image2spikes_from_inclusive(_, _, _)
image2spikes_from_inclusive(pixels, pix_id, spike_time) ==
    IF pix_id >= Len(pixels) THEN [indices |-> <<>>, times |-> <<>>]
    ELSE LET rest == image2spikes_from_inclusive(pixels, pix_id + 1, spike_time)
         IN  IF pixels[pix_id + 1] >= 128
             THEN [indices |-> <<pix_id>> \o rest.indices,
                   times |-> <<spike_time>> \o rest.times]
             ELSE rest

\* The loop body of image2spikes from pixel pix_id + 1 of the scan on.
RECURSIVE image2spikes_from(_, _, _)
image2spikes_from(pixels, pix_id, spike_time) ==
    IF pix_id >= Len(pixels) THEN [indices |-> <<>>, times |-> <<>>]
    ELSE LET rest == image2spikes_from(pixels, pix_id + 1, spike_time)
         IN  IF pixels[pix_id + 1] > 128
             THEN [indices |-> <<pix_id>> \o rest.indices,
                   times |-> <<spike_time>> \o rest.times]
             ELSE rest

image2spikes(pixel_map, spike_time) ==
    image2spikes_from(ScanOrder(pixel_map), 0, spike_time)

(***************************************************************************)
(* tools/data.py                                                           *)
(***************************************************************************)
\* len(list(filter(lambda val: end > val >= start, train)))
RECURSIVE count_in_window_inclusive(_, _, _)
count_in_window_inclusive(train, start, end) ==
    IF train = <<>> THEN 0
    ELSE int(end >= Head(train) /\ Head(train) >= start)
         + count_in_window_inclusive(Tail(train), start, end)

RECURSIVE count_in_window(_, _, _)
count_in_window(train, start, end) ==
    IF train = <<>> THEN 0
    ELSE int(end > Head(train) /\ Head(train) >= start)
         + count_in_window(Tail(train), start, end)

count_spikes(spike_train, start, end) ==
    [i \in DOMAIN spike_train |-> count_in_window(spike_train[i], start, end)]

\* The inner loop of get_class_spike_number adding the counts themselves.
RECURSIVE spiking_from_total(_, _, _, _)
spiking_from_total(spikes, csize, cid, i) ==
    IF i >= csize THEN 0
    ELSE spikes[cid * csize + i] + spiking_from_total(spikes, csize, cid, i + 1)

\* The inner loop of get_class_spike_number from member i on.
RECURSIVE spiking_from(_, _, _, _)
spiking_from(spikes, csize, cid, i) ==
    IF i >= csize THEN 0
    ELSE int(spikes[cid * csize + i] > 0) + spiking_from(spikes, csize, cid, i + 1)

get_class_spike_number(spikes, csize, camount) ==
    [cid \in 0..(camount - 1) |-> spiking_from(spikes, csize, cid, 0)]

\* The inner loop of get_class_spike_ids from member i on: the ids of the
\* members whose count is positive (want = TRUE) or not (want = FALSE).
RECURSIVE ids_from_skips_first(_, _, _, _, _)
ids_from_skips_first(spikes, csize, cid, i, want) ==
    IF i >= csize THEN <<>>
    ELSE LET member_id == cid * csize + i
         IN  (IF (spikes[member_id] > 0) = want /\ (i > 0 \/ want)
              THEN <<member_id>> ELSE <<>>)
             \o ids_from_skips_first(spikes, csize, cid, i + 1, want)

RECURSIVE ids_from(_, _, _, _, _)
ids_from(spikes, csize, cid, i, want) ==
    IF i >= csize THEN <<>>
    ELSE LET member_id == cid * csize + i
         IN  (IF (spikes[member_id] > 0) = want THEN <<member_id>> ELSE <<>>)
             \o ids_from(spikes, csize, cid, i + 1, want)

get_class_spike_ids(spikes, csize, camount) ==
    [spiking |-> [cid \in 0..(camount - 1) |->
                     ids_from(spikes, csize, cid, 0, TRUE)],
     non_spiking |-> [cid \in 0..(camount - 1) |->
                     ids_from(spikes, csize, cid, 0, FALSE)]]

(***************************************************************************)
(* State.                                                                  *)
(***************************************************************************)
VARIABLES
    syn,        \* one synapse of a ZengSTDPSynapses group
    now,        \* the time of that synapse's simulation
    fired,      \* the sides of the synapse that spiked at time now
    train_set,  \* ZengTrainer.train_set
    test_set,   \* ZengTrainer.test_set
    progress_results,   \* ZengTrainer.progress_results
    simulator,  \* ZengTrainer.simulator: the state of the IONetwork
    stored,     \* the checkpoint "dry_test" of the simulator
    pc,         \* where the trainer is in train() or test_network()
    call,       \* the call of the client in progress: train or test_network
    image,      \* the sample at hand
    indices,    \* its spike encoding
    resp,       \* the output neurons the pattern at hand drives to spike
    run,        \* the locals of IONetwork.run and its spike monitor
    events,     \* the neurons each event fired on in the last timestep
    marks,      \* the locals of _set_markers
    teach_iter, \* teaching runs done by _apply_training
    results,    \* the locals of test_network
    raised,     \* the exception the last call ended with
    at_call,    \* the simulator as it was when the call at hand began
    parameters, \* the settings of parameters.py the run was started with
    consumed,   \* the number of samples train() has popped
    offline_mode,   \* ZengTrainer._offline_mode
    ws_log,     \* the pushes train() attempted on the reporting channel
    backup,     \* the files store() wrote under runtime/
    arg,        \* the arguments of the call of a tool function
    ret,        \* what that call returned
    prep        \* the NeuronPrep class, the classes it customizes, its
                \* instances and the neuron groups they created

synvars == <<syn, now, fired>>
toolvars == <<arg, ret, prep>>
reportvars == <<offline_mode, ws_log>>
trainervars == <<train_set, test_set, progress_results, simulator, stored,
                 pc, call, image, indices, resp, run, events, marks,
                 teach_iter, results, raised, at_call, parameters, consumed,
                 offline_mode, ws_log, backup>>
vars == <<syn, now, fired, train_set, test_set, progress_results, simulator,
          stored, pc, call, image, indices, resp, run, events, marks,
          teach_iter, results, raised, at_call, parameters, consumed,
          offline_mode, ws_log, backup, arg, ret, prep>>

(***************************************************************************)
(* models/neurons.py : NeuronPrep and Prepable                             *)
(***************************************************************************)
\* Python dicts are functions; d[k] = v and del d[k].
EmptyDict == [k \in {} |-> ""]
Put(d, k, v) == [x \in DOMAIN d \cup {k} |-> IF x = k THEN v ELSE d[x]]
Del(d, k) == [x \in DOMAIN d \ {k} |-> d[x]]

\* The Prepable classes, each with the namespace dict of its class body.
PrepClasses == {"BasicNeuronGroup", "HodgkinHuxelyNeuronGroup"}
ClassNamespace == Put(EmptyDict, "v_rest", "-60*mV")

\* The module right after import: NeuronPrep.events and Cls.namespace as the
\* class bodies define them, no NeuronPrep instance and no neuron group.
NoPreps ==
    [events |-> [definitions |-> EmptyDict, codes |-> EmptyDict,
                 scheduling |-> EmptyDict],
     namespace |-> [cls \in PrepClasses |-> ClassNamespace],
     preps |-> <<>>,
     groups |-> <<>>]

\* Cls.customize(): NeuronPrep(Cls).  self.namespace is Cls.namespace itself
\* and self.events is the attribute of the class NeuronPrep, so the instance
\* holds neither; equations is a string of its own (the lines added to
\* Cls.equations are kept).  with_events and with_constants record the names
\* passed to the object's with_event and with_constant.
customize(st, cls) ==
    [st EXCEPT !.preps = Append(@, [neuron_class |-> cls, equations |-> <<>>,
                                    with_events |-> {},
                                    with_constants |-> {}])]

\* preps[p].with_event(name, cond, code, when, order)
with_event(st, p, e) ==
    LET defs == Put(st.events.definitions, e.name, e.cond)
        codes == IF e.code # "" THEN Put(st.events.codes, e.name, e.code)
                 ELSE st.events.codes
        s1 == IF e.when # "" THEN Put(EmptyDict, "when", e.when) ELSE EmptyDict
        s2 == IF e.order # "" THEN Put(s1, "order", e.order) ELSE s1
        sched == IF s2 = EmptyDict THEN Del(st.events.scheduling, e.name)
                 ELSE Put(st.events.scheduling, e.name, s2)
    IN  [st EXCEPT !.events = [definitions |-> defs, codes |-> codes,
                               scheduling |-> sched],
                   !.preps[p].with_events = @ \cup {e.name}]

\* preps[p].with_constant(name, value)
with_constant(st, p, name, value) ==
    [st EXCEPT !.namespace[st.preps[p].neuron_class] = Put(@, name, value),
               !.preps[p].with_constants = @ \cup {name}]

\* preps[p].with_variable(value)
with_variable(st, p, value) ==
    [st EXCEPT !.preps[p].equations = Append(@, value)]

\* preps[p].create(**kwargs): the events, their codes and schedules, the
\* namespace and the equations the new neuron group is built with.
create(st, p) ==
    [st EXCEPT !.groups = Append(@,
        [prep |-> p,
         events |-> st.events.definitions,
         codes |-> st.events.codes,
         scheduling |-> st.events.scheduling,
         namespace |-> st.namespace[st.preps[p].neuron_class],
         equations |-> st.preps[p].equations])]

\* An event of the output group of the trainer.
TeacherEvent(name) == [name |-> name, cond |-> name \o " == 1",
                       code |-> "v = v_trigger", when |-> "start",
                       order |-> ""]

\* The module after ZengTrainer.__init__ built its output group.
TrainerPreps ==
    create(
      with_variable(
        with_event(
          with_event(
            with_event(customize(NoPreps, "HodgkinHuxelyNeuronGroup"),
                       1, TeacherEvent("depress")),
            1, TeacherEvent("potentiate")),
          1, TeacherEvent("hold")),
        1, "t_rel : second"),
      1)

(***************************************************************************)
(* The network the trainer builds (ZengTrainer.__init__).                  *)
(***************************************************************************)
\* The output population: class_amount blocks of class_size neurons.
Out == 0..(class_amount * class_size - 1)
Classes == 0..(class_amount - 1)

\* Samples as the dataset loader supplies them: 1 x 2 pixel maps.
BlankMap == <<<<0, 128>>>>
Sample(c, pm) ==
    [class |-> c, pixelmap |-> pm,
     size |-> IF pm = <<>> THEN 0 ELSE Len(pm) * Len(pm[1])]
TrainSamples == {Sample(0, BlankMap), Sample(0, <<<<200, 0>>>>),
                 Sample(class_amount - 1, <<<<129, 255>>>>)}
\* The last test sample is a pixel wider than the others.
TestSamples == {Sample(0, BlankMap), Sample(0, <<<<200, 0>>>>),
                Sample(class_amount - 1, <<<<129, 255>>>>),
                Sample(0, <<<<0, 0, 200>>>>)}
\* The samples and the test set of the sessions that report or back up.
ReportSamples == {Sample(0, <<<<200, 0>>>>)}
ReportTestSet == <<Sample(0, BlankMap), Sample(0, BlankMap)>>
\* The test set of the trainers that train.
TrainerTestSet == <<Sample(class_amount - 1, <<<<129, 255>>>>),
                   Sample(0, BlankMap)>>

\* The input population has one neuron per pixel of test_set[FIRST].
In(tset) == 0..(tset[1].size - 1)

\* rand() * w_max of the synapses of a trainer's network.
TrainerInitialWeights == {200}

NoEvents == [depress |-> {}, potentiate |-> {}, hold |-> {}]

\* The IONetwork right after construction.
NewSimulator(tset, w0) ==
    [t |-> 0,
     t_rel |-> 0,
     potentiate |-> [n \in Out |-> 0],
     depress |-> [n \in Out |-> 0],
     hold |-> [n \in Out |-> 0],
     synapses |-> [c \in In(tset) \X Out |-> NewSynapse(w0)],
     indices |-> <<>>,
     times |-> <<>>]

\* self.simulator = None
None == [none |-> TRUE]

NoRun == [sim_start |-> 0, end |-> 0, recording |-> FALSE,
          trains |-> [n \in Out |-> <<>>]]
NoMarks == [spiking_classes |-> [c \in Classes |-> <<>>],
            non_spiking_classes |-> [c \in Classes |-> <<>>],
            hold_list |-> <<>>, class_id |-> 0, left |-> 0]
NoResults == [image |-> <<>>, success |-> <<>>, rate |-> 0,
              success_num |-> 0, dry_run |-> FALSE, next |-> 1,
              logged |-> <<>>]
NoImage == Sample(0, <<>>)
NoError == [type |-> "none", picture |-> 0]
\* The ValueError of set_spikes on an index outside the input population.
IndexRangeError == [type |-> "ValueError", picture |-> 0]

\* No file under runtime/, and no call of a tool function.
NoBackup == [stored |-> FALSE, train_set |-> <<>>, test_set |-> <<>>,
             progress_results |-> [steps |-> <<>>, values |-> <<>>],
             offline_mode |-> FALSE, consumed |-> 0, network |-> <<>>]
NoArg == [f |-> "none"]
NoRet == <<>>

\* The run uses parameters.py as it is written; the hello was not attempted.
AsConfigured ==
    /\ parameters = [progress_monitoring |-> progress_monitoring,
                     websocket_logging |-> websocket_logging]
    /\ offline_mode = FALSE

\* A trainer right after ZengTrainer(OutputClass, SynapseClass, train_set,
\* test_set), before any call.
TrainerFields(trs, tes, w0) ==
    /\ train_set = trs
    /\ test_set = tes
    /\ progress_results = [steps |-> <<>>, values |-> <<>>]
    /\ simulator = NewSimulator(tes, w0)
    /\ stored = NewSimulator(tes, w0)
    /\ pc = "idle"
    /\ call = "none"
    /\ image = NoImage
    /\ indices = <<>>
    /\ resp = {}
    /\ run = NoRun
    /\ events = NoEvents
    /\ marks = NoMarks
    /\ teach_iter = 0
    /\ results = NoResults
    /\ raised = NoError
    /\ at_call = NewSimulator(tes, w0)
    /\ consumed = 0
    /\ ws_log = <<>>
    /\ backup = NoBackup
    /\ arg = NoArg
    /\ ret = NoRet

\* The state right after ZengTrainer.__init__.
NewTrainer(trs, tes, w0) ==
    /\ TrainerFields(trs, tes, w0)
    /\ prep = TrainerPreps

\* The trainer left aside while a single synapse is exercised.
TrainerIdle ==
    /\ NewTrainer(<<>>, <<Sample(0, <<<<200, 0>>>>)>>, 7)
    /\ AsConfigured

SeqsUpTo(S, n) == UNION {[1..k -> S] : k \in 1..n}

Init ==
    /\ syn = NewSynapse(0) /\ now = 0 /\ fired = {}
    /\ AsConfigured
    /\ \E trs \in SeqsUpTo(TrainSamples, MaxTrain),
          w0 \in TrainerInitialWeights : NewTrainer(trs, TrainerTestSet, w0)

(***************************************************************************)
(* One timestep of the simulation (IONetwork.run -> Network.run).          *)
(***************************************************************************)
\* timestep(t, dt): the index of the timestep a time falls in.
timestep(tq, dtq) == tq \div dtq

\* The conditions of the three events of the output group.
depress_cond(sim, n) ==
    /\ \/ timestep(sim.t_rel, dt) = timestep(T01, dt)
       \/ timestep(sim.t_rel, dt) = timestep(T11, dt)
    /\ sim.depress[n] = 1

potentiate_cond_any_time(sim, n) ==
    \/ timestep(sim.t_rel, dt) = timestep(T03, dt)
    \/ timestep(sim.t_rel, dt) = timestep(T13, dt)
    \/ sim.potentiate[n] = 1
potentiate_cond(sim, n) ==
    /\ \/ timestep(sim.t_rel, dt) = timestep(T03, dt)
       \/ timestep(sim.t_rel, dt) = timestep(T13, dt)
    /\ sim.potentiate[n] = 1

hold_cond(sim, n) ==
    /\ timestep(sim.t_rel, dt) = timestep(T10, dt)
    /\ sim.hold[n] = 1

\* The events that fire at the start of the timestep: each sets v = v_trigger
\* on the neurons it fires on.
FiredEvents(sim) ==
    [depress |-> {n \in Out : depress_cond(sim, n)},
     potentiate |-> {n \in Out : potentiate_cond(sim, n)},
     hold |-> {n \in Out : hold_cond(sim, n)}]

Forced(ev) == ev.depress \cup ev.potentiate \cup ev.hold

\* t_rel is declared 't_rel : second': a parameter of the neuron, which the
\* state update of a timestep leaves as it is.
t_rel_update(sim) == sim.t_rel

\* The input neurons the spike generator fires at time t.
InputSpikes(sim, t) ==
    {sim.indices[k] : k \in {j \in DOMAIN sim.indices : sim.times[j] = t}}

\* The output neurons that spike in the timestep at sim.t: those forced to
\* the trigger voltage by an event of the timestep before, and those driven
\* by the input pattern presented in the timestep before.
OutputSpikes(sim, ev, rs) ==
    Forced(ev) \cup (IF InputSpikes(sim, sim.t - 1) # {} THEN rs ELSE {})

\* The synapses after the timestep: the pre pathway runs before the post
\* pathway.
SynapseStep(sim, pre, post) ==
    [c \in DOMAIN sim.synapses |->
        LET s0 == sim.synapses[c]
            s1 == IF c[1] \in pre THEN on_pre_eqs(s0, sim.t) ELSE s0
        IN  IF c[2] \in post THEN on_post_eqs(s1, sim.t) ELSE s1]

\* The state of the network after one timestep.
NetworkStep(sim, ev, rs) ==
    [sim EXCEPT !.t = sim.t + dt,
                !.t_rel = t_rel_update(sim),
                !.synapses = SynapseStep(sim, InputSpikes(sim, sim.t),
                                         OutputSpikes(sim, ev, rs))]

\* set_spikes raises ValueError on an index outside the population, whose
\* size is that of test_set[FIRST].
set_spikes_fails(ids) == \E k \in DOMAIN ids : ids[k] \notin In(test_set)

\* SpikeGeneratorGroup.set_spikes(indices, times + t)
set_spikes(sim, ids, times) ==
    [sim EXCEPT !.indices = ids,
                !.times = [k \in DOMAIN times |-> times[k] + sim.t]]

\* The start of IONetwork.run(duration, record_output_spikes).
StartRun(sim, duration, record) ==
    [sim_start |-> sim.t, end |-> sim.t + duration, recording |-> record,
     trains |-> [n \in Out |-> <<>>]]

\* The counts of a window that ends at the duration of the run.
RunData_until_duration(sim, r) ==
    count_spikes(r.trains, r.sim_start, sim.t - r.sim_start)

\* What IONetwork.run returns when it recorded the output spikes.
RunData(sim, r) == count_spikes(r.trains, r.sim_start, r.sim_start + sim.t)

\* One timestep of a run in progress.
RunStep ==
    /\ pc \in {"trial", "teach", "test"}
    /\ simulator.t < run.end
    /\ LET ev == FiredEvents(simulator)
           spikes == OutputSpikes(simulator, events, resp)
       IN  /\ events' = ev
           /\ simulator' = NetworkStep(simulator, events, resp)
           /\ run' = [run EXCEPT !.trains =
                        [n \in Out |-> IF run.recording /\ n \in spikes
                                       THEN Append(run.trains[n], simulator.t)
                                       ELSE run.trains[n]]]
    /\ UNCHANGED <<synvars, toolvars, parameters, backup, reportvars, consumed,
                   train_set, test_set, progress_results, stored, pc,
                   call, image, indices, resp, marks, teach_iter, results, raised, at_call>>

(***************************************************************************)
(* ZengTrainer.train                                                       *)
(***************************************************************************)
\* The sets of output neurons an input pattern may drive to spike.  The
\* integration of the neuron equations decides; the model explores no
\* neuron, the last neuron of the first class alone, the whole first class
\* with one neuron of the last class, and every neuron.
Block(class_id) == {class_id * class_size + k : k \in 0..(class_size - 1)}
Responses(ids) ==
    IF ids = <<>> THEN {{}}
    ELSE {{}, {class_size - 1},
          Block(0) \cup {(class_amount - 1) * class_size}, Out}

\* The TrainerError of train() on an empty picture.
EmptyPictureError(remaining) ==
    [type |-> "TrainerError", picture |-> train_data_size - Len(remaining)]

\* if len(indices) == 0
is_empty_picture_never(enc) == Len(enc.indices) < 0
is_empty_picture(enc) == Len(enc.indices) = 0

\* The list after list.pop() took its last item.
popped_last(list) == SubSeq(list, 1, Len(list) - 1)
\* The list after list.pop(0) took its first item.
popped(list) == Tail(list)

\* train() up to the start of the trial run.
TrainCall ==
    /\ pc = "idle"
    /\ train_set # <<>>
    /\ LET img == Head(train_set)
           enc == image2spikes(img.pixelmap, 0)
       IN  /\ image' = img
           /\ train_set' = popped(train_set)
           /\ indices' = enc.indices
           /\ at_call' = simulator
           /\ call' = "train"
           /\ consumed' = consumed + 1
           /\ IF is_empty_picture(enc)
              THEN /\ raised' = EmptyPictureError(popped(train_set))
                   /\ pc' = "returned"
                   /\ UNCHANGED <<simulator, run, resp>>
              ELSE IF simulator = None
              THEN \* self.simulator['input'] on None
                   /\ raised' = [type |-> "TypeError", picture |-> 0]
                   /\ pc' = "returned"
                   /\ UNCHANGED <<simulator, run, resp>>
              ELSE IF set_spikes_fails(enc.indices)
              THEN /\ raised' = IndexRangeError
                   /\ pc' = "returned"
                   /\ UNCHANGED <<simulator, run, resp>>
              ELSE /\ raised' = NoError
                   /\ simulator' = set_spikes(simulator, enc.indices, enc.times)
                   /\ run' = StartRun(simulator, cycle_time, TRUE)
                   /\ resp' \in Responses(enc.indices)
                   /\ pc' = "trial"
    /\ UNCHANGED <<synvars, toolvars, parameters, backup, reportvars,
                   test_set, progress_results, stored, events,
                   marks, teach_iter, results>>

\* The trial run returns its spike counts; _set_markers begins.
TrialReturn ==
    /\ pc = "trial"
    /\ simulator.t = run.end
    /\ LET data == RunData(simulator, run)
           ids == get_class_spike_ids(data, class_size, class_amount)
       IN  marks' = [spiking_classes |-> ids.spiking,
                     non_spiking_classes |-> ids.non_spiking,
                     hold_list |-> <<>>, class_id |-> 0, left |-> 0]
    /\ run' = [run EXCEPT !.recording = FALSE]
    /\ pc' = "mark"
    /\ UNCHANGED <<synvars, toolvars, parameters, backup, reportvars, consumed,
                   train_set, test_set, progress_results, simulator,
                   stored, call, image, indices, resp, events, teach_iter,
                   results, raised, at_call>>

(***************************************************************************)
(* ZengTrainer._set_markers                                                *)
(***************************************************************************)
\* a = [class_id * class_size + n for n in range(class_size)]
ClassMembers_short(class_id) ==
    [k \in 1..(class_size - 1) |-> class_id * class_size + k - 1]
ClassMembers(class_id) == [k \in 1..class_size |-> class_id * class_size + k - 1]

\* The head of one iteration of the loop over the classes.
MarkClass ==
    /\ pc = "mark"
    /\ marks.class_id < class_amount
    /\ LET class_id == marks.class_id
           number_spikes == Len(marks.spiking_classes[class_id])
       IN  IF class_id = image.class
           THEN IF number_spikes < active_threshold
                THEN /\ marks' = [marks EXCEPT
                            !.hold_list = @ \o ClassMembers(class_id),
                            !.left = active_threshold - number_spikes]
                     /\ pc' = "pick_potentiate"
                ELSE /\ marks' = [marks EXCEPT
                            !.hold_list = @ \o ClassMembers(class_id),
                            !.class_id = @ + 1]
                     /\ pc' = "mark"
           ELSE IF number_spikes > inactive_threshold
                THEN /\ marks' = [marks EXCEPT
                            !.left = number_spikes - inactive_threshold]
                     /\ pc' = "pick_depress"
                ELSE /\ marks' = [marks EXCEPT !.class_id = @ + 1]
                     /\ pc' = "mark"
    /\ UNCHANGED <<synvars, toolvars, parameters, backup, reportvars, consumed,
                   train_set, test_set, progress_results, simulator,
                   stored, call, image, indices, resp, run, events,
                   teach_iter, results, raised, at_call>>

\* The end of an iteration of one of the two inner loops.
EndPick(m) == IF m.left = 1
              THEN [m EXCEPT !.left = 0, !.class_id = @ + 1]
              ELSE [m EXCEPT !.left = @ - 1]

\* The lists after a neuron was chosen for potentiation.
potentiate_pick_with_replacement(m, neuron) ==
    EndPick([m EXCEPT !.hold_list = remove(@, neuron)])
potentiate_pick_keeps_hold(m, neuron) ==
    EndPick([m EXCEPT
        !.non_spiking_classes[m.class_id] = remove(@, neuron)])
potentiate_pick(m, neuron) ==
    EndPick([m EXCEPT
        !.hold_list = remove(@, neuron),
        !.non_spiking_classes[m.class_id] = remove(@, neuron)])

\* The lists after a neuron was chosen for depression.
depress_pick_with_replacement(m, neuron) == EndPick(m)
depress_pick(m, neuron) ==
    EndPick([m EXCEPT !.spiking_classes[m.class_id] = remove(@, neuron)])

\* One iteration of the loop that marks neurons of the target class.
PickPotentiate ==
    /\ pc = "pick_potentiate"
    /\ LET list == marks.non_spiking_classes[marks.class_id]
       IN  IF list = <<>>
           THEN \* rng.choice of an empty list
                /\ raised' = [type |-> "IndexError", picture |-> 0]
                /\ pc' = "returned"
                /\ UNCHANGED <<marks, simulator>>
           ELSE \E k \in DOMAIN list :
                /\ marks' = potentiate_pick(marks, list[k])
                /\ simulator' = [simulator EXCEPT !.potentiate[list[k]] = 1]
                /\ pc' = IF marks'.left = 0 THEN "mark" ELSE "pick_potentiate"
                /\ UNCHANGED raised
    /\ UNCHANGED <<synvars, toolvars, parameters, backup, reportvars, consumed,
                   train_set, test_set, progress_results, stored,
                   call, image, indices, resp, run, events, teach_iter,
                   results, at_call>>

\* One iteration of the loop that marks neurons of another class.
PickDepress ==
    /\ pc = "pick_depress"
    /\ LET list == marks.spiking_classes[marks.class_id]
       IN  IF list = <<>>
           THEN /\ raised' = [type |-> "IndexError", picture |-> 0]
                /\ pc' = "idle"
                /\ UNCHANGED <<marks, simulator>>
           ELSE \E k \in DOMAIN list :
                /\ marks' = depress_pick(marks, list[k])
                /\ simulator' = [simulator EXCEPT !.depress[list[k]] = 1]
                /\ pc' = IF marks'.left = 0 THEN "mark" ELSE "pick_depress"
                /\ UNCHANGED raised
    /\ UNCHANGED <<synvars, toolvars, parameters, backup, reportvars, consumed,
                   train_set, test_set, progress_results, stored,
                   call, image, indices, resp, run, events, teach_iter,
                   results, at_call>>

\* for neuron in hold_list: hold[neuron] = 1
set_hold(sim, hold_list) ==
    [sim EXCEPT !.hold = [n \in Out |-> IF n \in Elems(hold_list)
                                        THEN 1 ELSE sim.hold[n]]]

\* The loop over the classes is over: the hold list is marked and
\* _set_markers returns.
MarkHold ==
    /\ pc = "mark"
    /\ marks.class_id = class_amount
    /\ simulator' = set_hold(simulator, marks.hold_list)
    /\ pc' = "marked"
    /\ UNCHANGED <<synvars, toolvars, parameters, backup, reportvars, consumed,
                   train_set, test_set, progress_results, stored,
                   call, image, indices, resp, run, events, marks,
                   teach_iter, results, raised, at_call>>

(***************************************************************************)
(* ZengTrainer._apply_training                                             *)
(***************************************************************************)
\* The pattern scheduled at the start of each exposure.
training_times_at_start(ids) == Repeat(0, Len(ids)) \o Repeat(cycle_time, Len(ids))
\* [T02 for _ in indices] + [T12 for _ in indices]
training_times(ids) == Repeat(T02, Len(ids)) \o Repeat(T12, Len(ids))

\* The head of one iteration of the loop over train_step: t_rel is reset,
\* the pattern is scheduled twice and the teaching run starts.
begin_teaching(sim, ids) ==
    set_spikes([sim EXCEPT !.t_rel = -dt], ids \o ids, training_times(ids))

\* The three assignments that end _apply_training.
reset_flags_keeps_hold(sim) ==
    [sim EXCEPT !.potentiate = [n \in Out |-> 0],
                !.depress = [n \in Out |-> 0]]
reset_flags_keeps_depress(sim) ==
    [sim EXCEPT !.potentiate = [n \in Out |-> 0],
                !.hold = [n \in Out |-> 0]]
reset_flags(sim) ==
    [sim EXCEPT !.potentiate = [n \in Out |-> 0],
                !.depress = [n \in Out |-> 0],
                !.hold = [n \in Out |-> 0]]

\* for _ in range(train_step): whether a run follows the one that made the
\* count of finished runs iter.
more_teaching_one_more(iter) == iter <= train_step
more_teaching(iter) == iter < train_step

\* _apply_training begins: the first teaching run starts.
ApplyTraining ==
    /\ pc = "marked"
    /\ simulator' = begin_teaching(simulator, indices)
    /\ run' = StartRun(simulator, train_time, FALSE)
    /\ teach_iter' = 0
    /\ pc' = "teach"
    /\ UNCHANGED <<synvars, toolvars, parameters, backup, reportvars, consumed,
                   train_set, test_set, progress_results, stored,
                   call, image, indices, resp, events, marks, results, raised, at_call>>

\* A teaching run is over: the next one starts, or the flags are reset and
\* _apply_training returns.
TeachReturn ==
    /\ pc = "teach"
    /\ simulator.t = run.end
    /\ teach_iter' = teach_iter + 1
    /\ IF more_teaching(teach_iter + 1)
       THEN /\ simulator' = begin_teaching(simulator, indices)
            /\ run' = StartRun(simulator, train_time, FALSE)
            /\ pc' = "teach"
       ELSE /\ simulator' = reset_flags(simulator)
            /\ pc' = "trained"
            /\ UNCHANGED run
    /\ UNCHANGED <<synvars, toolvars, parameters, backup, reportvars, consumed,
                   train_set, test_set, progress_results, stored,
                   call, image, indices, resp, events, marks, results, raised, at_call>>

(***************************************************************************)
(* ZengTrainer.test_network                                                *)
(***************************************************************************)
\* The loop over run_results from class i on, with the best class so far.
RECURSIVE best_scan(_, _, _, _)
best_scan(run_results, i, best, canceled) ==
    IF i >= class_amount THEN [best |-> best, canceled |-> canceled]
    ELSE LET v == run_results[i]
         IN  IF v = best.value
             THEN best_scan(run_results, i + 1, best, TRUE)
             ELSE IF v > best.value
             THEN best_scan(run_results, i + 1, [class |-> i, value |-> v], FALSE)
             ELSE best_scan(run_results, i + 1, best, canceled)

\* Whether the sample of class label is a success.
is_success_ignoring_ties(run_results, label) ==
    best_scan(run_results, 0, [class |-> 0, value |-> -1], FALSE).best.class
        = label
is_success(run_results, label) ==
    LET r == best_scan(run_results, 0, [class |-> 0, value |-> -1], FALSE)
    IN  r.best.class = label /\ ~r.canceled

\* set_spikes and the start of the run for test sample number k; an
\* exception of set_spikes leaves test_network at once.
present_test_image(k) ==
    LET img == test_set[k]
        enc == image2spikes(img.pixelmap, 0)
    IN  IF set_spikes_fails(enc.indices)
        THEN /\ raised' = IndexRangeError
             /\ pc' = "returned"
             /\ UNCHANGED <<simulator, run, resp>>
        ELSE /\ simulator' = set_spikes(simulator, enc.indices, enc.times)
             /\ run' = StartRun(simulator, cycle_time, TRUE)
             /\ resp' \in Responses(enc.indices)
             /\ pc' = "test"
             /\ raised' = NoError

\* self.simulator.store("dry_test") and self.simulator.restore("dry_test"):
\* the checkpoint holds the whole state of the network, clock included.
network_store(sim) == sim
network_restore_keeps_clock(sim, checkpoint) == [checkpoint EXCEPT !.t = sim.t]
network_restore(sim, checkpoint) == checkpoint

\* test_network(dry_run) up to the start of the run of the first sample.
begin_test(dry_run) ==
    /\ stored' = IF dry_run THEN network_store(simulator) ELSE stored
    /\ results' = [NoResults EXCEPT !.dry_run = dry_run]
    /\ present_test_image(1)

\* The client calls test_network on a network that has not run yet; after a
\* dry run the network is in that state again and the call can be repeated.
TestCall ==
    /\ pc = "idle"
    /\ simulator.t = 0
    /\ \E dry_run \in BOOLEAN :
        /\ begin_test(dry_run)
    /\ call' = "test_network"
    /\ at_call' = simulator
    /\ UNCHANGED <<synvars, toolvars, parameters, backup, reportvars, consumed,
                   train_set, test_set, progress_results, image,
                   indices, events, marks, teach_iter>>

\* train() after _apply_training: the periodic evaluation, or the return.
TrainTail ==
    /\ pc = "trained"
    /\ IF parameters.progress_monitoring.active
          /\ Len(train_set) % parameters.progress_monitoring.step = 0
       THEN begin_test(TRUE)
       ELSE /\ pc' = "returned"
            /\ UNCHANGED <<stored, results, simulator, run, resp, raised>>
    /\ UNCHANGED <<synvars, toolvars, parameters, backup, reportvars, consumed,
                   call, train_set, test_set, progress_results, image,
                   indices, events, marks, teach_iter, at_call>>

\* The results with the verdict on the sample whose run just ended; logged
\* is what logging.debug(run_results) wrote.
record_sample(res, sim, r, img) ==
    LET data == RunData(sim, r)
        run_results == get_class_spike_number(data, class_size, class_amount)
    IN  [res EXCEPT !.logged = Append(@, run_results),
                    !.image = Append(@, img.class),
                    !.success = Append(@, is_success(run_results, img.class)),
                    !.success_num = @ + int(is_success(run_results, img.class)),
                    !.next = @ + 1]

\* The run of a test sample is over and another sample follows.
TestNextImage ==
    /\ pc = "test"
    /\ simulator.t = run.end
    /\ results.next < Len(test_set)
    /\ results' = record_sample(results, simulator, run,
                                test_set[results.next])
    /\ present_test_image(results.next + 1)
    /\ UNCHANGED <<synvars, toolvars, parameters, backup, reportvars, consumed,
                   train_set, test_set, progress_results, stored,
                   call, image, indices, events, marks, teach_iter, at_call>>

\* success / len(test_set) * 100, in fixed point.
rate(success, n) == (success * 100 * Scale) \div n

\* What a push of a result on the reporting channel can end with: the server
\* accepts it, the connection is refused, the server answers with a falsy
\* payload, or the channel fails in another way (a timeout, a name that does
\* not resolve, a handshake or a connection that breaks).
ReportOutcomes == {"accepted", "refused", "rejected", "failed"}
RejectedError == [type |-> "TrainerError", picture |-> 0]
ChannelError == [type |-> "OSError", picture |-> 0]

\* except ConnectionRefusedError: the exceptions the call site catches.
caught_any(outcome) == outcome # "accepted"
caught(outcome) == outcome = "refused"

\* The try statement of train() around _send_training_results(id, value).
send_training_results(id, value, outcome) ==
    /\ ws_log' = Append(ws_log, [id |-> id, value |-> value,
                                 outcome |-> outcome])
    /\ offline_mode' = IF caught(outcome) THEN TRUE ELSE offline_mode
    /\ raised' = IF caught(outcome) \/ outcome = "accepted" THEN NoError
                 ELSE IF outcome = "rejected" THEN RejectedError
                 ELSE ChannelError

\* if websocket_logging['active'] and not self._offline_mode
reports_always == parameters.websocket_logging.active
reports == parameters.websocket_logging.active /\ ~offline_mode

\* The run of the last test sample is over: the rate is computed, the
\* checkpoint restored after a dry run, and test_network returns; train()
\* then records the rate and pushes it on the reporting channel.
TestFinish ==
    /\ pc = "test"
    /\ simulator.t = run.end
    /\ results.next = Len(test_set)
    /\ LET res == record_sample(results, simulator, run,
                                test_set[results.next])
           final == [res EXCEPT !.rate = rate(res.success_num, Len(test_set))]
       IN  /\ results' = final
           /\ progress_results' =
                IF call = "train"
                THEN [steps |-> Append(progress_results.steps,
                                       train_data_size - Len(train_set)),
                      values |-> Append(progress_results.values, final.rate)]
                ELSE progress_results
           /\ IF call = "train" /\ reports
              THEN \E outcome \in ReportOutcomes :
                      send_training_results(
                          train_data_size - Len(train_set), final.rate,
                          outcome)
              ELSE UNCHANGED <<reportvars, raised>>
    /\ simulator' = IF results.dry_run
                    THEN network_restore(simulator, stored) ELSE simulator
    /\ run' = [run EXCEPT !.recording = FALSE]
    /\ pc' = "returned"
    /\ UNCHANGED <<synvars, toolvars, parameters, backup, consumed,
                   train_set, test_set, stored, call, image,
                   indices, resp, events, marks, teach_iter, at_call>>

\* The call is over: the client has its result or its exception, and the
\* locals of the call are gone.
Return ==
    /\ pc = "returned"
    /\ pc' = "idle"
    /\ call' = "none"
    /\ image' = NoImage
    /\ indices' = <<>>
    /\ resp' = {}
    /\ run' = NoRun
    /\ marks' = NoMarks
    /\ teach_iter' = 0
    /\ results' = NoResults
    /\ raised' = NoError
    /\ at_call' = simulator
    /\ UNCHANGED <<synvars, toolvars, parameters, backup, reportvars, consumed,
                   train_set, test_set, progress_results, simulator,
                   stored, events>>

\* A training session: the client calls train() until the training set is
\* used up.
Next ==
    \/ TrainCall \/ RunStep \/ TrialReturn
    \/ MarkClass \/ PickPotentiate \/ PickDepress \/ MarkHold
    \/ ApplyTraining \/ TeachReturn \/ TrainTail
    \/ TestNextImage \/ TestFinish \/ Return

Spec == Init /\ [][Next]_vars

(***************************************************************************)
(* The tool functions called on their own (tools/data.py).                 *)
(***************************************************************************)
\* The spike times of a neuron as the spike monitor hands them out: in
\* increasing order, at most one per timestep.
RECURSIVE SortedSeq(_)
SortedSeq(S) ==
    IF S = {} THEN <<>>
    ELSE LET m == CHOOSE x \in S : \A y \in S : x <= y
         IN  <<m>> \o SortedSeq(S \ {m})
SpikeTimes == 0..MaxSpikeTime
Trains == {SortedSeq(S) : S \in SUBSET SpikeTimes}
\* spike_trains() of a population of class_amount neurons.
SpikeTrains == [0..(class_amount - 1) -> Trains]
\* Spike counts of the output population.
SpikeCounts == [Out -> 0..MaxCount]

\* A behaviour is one call of one tool function: they keep no state.
ToolsInit ==
    /\ syn = NewSynapse(0) /\ now = 0 /\ fired = {}
    /\ TrainerIdle

\* count_spikes(spike_train, start, end)
CallCountSpikes ==
    /\ arg = NoArg
    /\ \E spike_train \in SpikeTrains, start \in SpikeTimes, end \in SpikeTimes :
          /\ arg' = [f |-> "count_spikes", spike_train |-> spike_train,
                     start |-> start, end |-> end]
          /\ ret' = count_spikes(spike_train, start, end)
    /\ UNCHANGED <<synvars, trainervars, prep>>

\* get_class_spike_number(spikes, class_size, class_amount)
CallGetClassSpikeNumber ==
    /\ arg = NoArg
    /\ \E spikes \in SpikeCounts :
          /\ arg' = [f |-> "get_class_spike_number", spikes |-> spikes]
          /\ ret' = get_class_spike_number(spikes, class_size, class_amount)
    /\ UNCHANGED <<synvars, trainervars, prep>>

\* get_class_spike_ids(spikes, class_size, class_amount)
CallGetClassSpikeIds ==
    /\ arg = NoArg
    /\ \E spikes \in SpikeCounts :
          /\ arg' = [f |-> "get_class_spike_ids", spikes |-> spikes]
          /\ ret' = get_class_spike_ids(spikes, class_size, class_amount)
    /\ UNCHANGED <<synvars, trainervars, prep>>

\* Pixel intensities around the threshold, and the pixel maps of at most
\* MaxPixels pixels (rows of equal length, as tools/mnist.py builds them).
Pixels == {0, 128, 129, 255}
PixelMaps ==
    {<<>>} \cup
    UNION {[1..rows -> [1..cols -> Pixels]] :
              <<rows, cols>> \in {d \in (1..MaxPixels) \X (1..MaxPixels) :
                                    d[1] * d[2] <= MaxPixels}}

\* image2spikes(pixel_map, spike_time)
CallImage2Spikes ==
    /\ arg = NoArg
    /\ \E pixel_map \in PixelMaps, spike_time \in SpikeTimes :
          /\ arg' = [f |-> "image2spikes", pixel_map |-> pixel_map,
                     spike_time |-> spike_time]
          /\ ret' = image2spikes(pixel_map, spike_time)
    /\ UNCHANGED <<synvars, trainervars, prep>>

ToolsNext ==
    \/ CallCountSpikes
    \/ CallGetClassSpikeNumber
    \/ CallGetClassSpikeIds
    \/ CallImage2Spikes

SpecTools == ToolsInit /\ [][ToolsNext]_vars

(***************************************************************************)
(* ZengTrainer.store and ZengTrainer.restore                               *)
(***************************************************************************)
\* pickle.dump(self) with the simulator taken out, and simulator.store to
\* the file: copies of the trainer's attributes and of the network's state.
\* consumed rides along so that a resumed run goes on counting.
pickle_dump(sim) ==
    [stored |-> TRUE, train_set |-> train_set, test_set |-> test_set,
     progress_results |-> progress_results, offline_mode |-> offline_mode,
     consumed |-> consumed, network |-> network_store(sim)]

\* What becomes of trainer_backup.dat: it is written, or pickle.dump raises
\* on the file that open(.., mode='wb') has emptied.  restore() fails on
\* such a file as it does on a missing one (the exception types are not
\* told apart).
PickleOutcomes == {"written", "failed"}

\* store(), called between two calls of train().  On a trainer whose
\* simulator is None, self.simulator.store raises AttributeError.
Store ==
    /\ pc = "idle"
    /\ call' = "store"
    /\ pc' = "returned"
    /\ at_call' = simulator
    /\ IF simulator = None
       THEN /\ raised' = [type |-> "AttributeError", picture |-> 0]
            /\ UNCHANGED <<backup, simulator>>
       ELSE \E outcome \in PickleOutcomes :
            LET temp_simulator == simulator
            IN  /\ backup' = IF outcome = "written"
                             THEN pickle_dump(temp_simulator)
                             ELSE [NoBackup EXCEPT
                                     !.network = network_store(temp_simulator)]
                \* self.simulator = None, then self.simulator =
                \* temp_simulator once pickle.dump has returned
                /\ simulator' = IF outcome = "written" THEN temp_simulator
                                ELSE None
                /\ raised' = IF outcome = "written" THEN NoError
                             ELSE [type |-> "OSError", picture |-> 0]
    /\ UNCHANGED <<synvars, toolvars, parameters, reportvars, consumed,
                   train_set, test_set, progress_results, stored,
                   image, indices, resp, run, events, marks,
                   teach_iter, results>>

\* old_trainer = pickle.load(save_file): the trainer as it was stored, not
\* as the trainer that wrote the file is now.
pickle_load_live(b) == [b EXCEPT !.train_set = train_set]
pickle_load(b) == b

BackupMissingError == [type |-> "FileNotFoundError", picture |-> 0]

\* restore(), in a process that has no trainer yet or gives up the one it
\* has: a trainer is built from the stored sets with a new network, takes
\* the attributes of the stored one and restores the network from the file.
Restore ==
    /\ pc = "idle"
    /\ call' = "restore"
    /\ pc' = "returned"
    /\ IF ~backup.stored
       THEN /\ raised' = BackupMissingError
            /\ UNCHANGED <<train_set, test_set, progress_results,
                           offline_mode, consumed, simulator, stored,
                           at_call>>
       ELSE LET old_trainer == pickle_load(backup)
            IN  \E w0 \in TrainerInitialWeights :
                LET temp_sim == NewSimulator(old_trainer.test_set, w0)
                IN  /\ train_set' = old_trainer.train_set
                    /\ test_set' = old_trainer.test_set
                    /\ progress_results' = old_trainer.progress_results
                    /\ offline_mode' = old_trainer.offline_mode
                    /\ consumed' = old_trainer.consumed
                    /\ simulator' = network_restore(temp_sim, backup.network)
                    /\ stored' = temp_sim
                    /\ at_call' = temp_sim
                    /\ raised' = NoError
    /\ UNCHANGED <<synvars, toolvars, parameters, backup, ws_log, image,
                   indices, resp, run, events, marks, teach_iter, results>>

(***************************************************************************)
(* A training session with backups: between the calls of train() the       *)
(* client may store the trainer, and may resume from the last backup.      *)
(***************************************************************************)
BackupInit ==
    /\ syn = NewSynapse(0) /\ now = 0 /\ fired = {}
    /\ AsConfigured
    /\ \E trs \in SeqsUpTo(ReportSamples, MaxTrain),
          w0 \in TrainerInitialWeights : NewTrainer(trs, TrainerTestSet, w0)

BackupNext ==
    \/ TrainCall \/ RunStep \/ TrialReturn \/ MarkClass \/ PickPotentiate
    \/ PickDepress \/ MarkHold \/ ApplyTraining \/ TeachReturn \/ TrainTail
    \/ TestNextImage \/ TestFinish \/ Return \/ Store \/ Restore

SpecBackup == BackupInit /\ [][BackupNext]_vars

(***************************************************************************)
(* A training session that reports: websocket logging is switched on and   *)
(* every train() call ends with an evaluation; the hello of the constructor*)
(* was answered, or refused.                                               *)
(***************************************************************************)
ReportInit ==
    /\ syn = NewSynapse(0) /\ now = 0 /\ fired = {}
    /\ parameters = [progress_monitoring |-> [active |-> TRUE, step |-> 1],
                     websocket_logging |-> [active |-> TRUE]]
    /\ offline_mode \in BOOLEAN
    /\ \E trs \in SeqsUpTo(ReportSamples, MaxTrain),
          w0 \in TrainerInitialWeights : NewTrainer(trs, ReportTestSet, w0)

SpecReport == ReportInit /\ [][Next]_vars

(***************************************************************************)
(* An evaluation session: the client calls test_network on a new trainer,  *)
(* with any test set.                                                      *)
(***************************************************************************)
TestInit ==
    /\ syn = NewSynapse(0) /\ now = 0 /\ fired = {}
    /\ AsConfigured
    /\ \E tes \in SeqsUpTo(TestSamples, MaxTest),
          w0 \in TrainerInitialWeights : NewTrainer(<<>>, tes, w0)

TestNext == TestCall \/ RunStep \/ TestNextImage \/ TestFinish \/ Return

SpecTest == TestInit /\ [][TestNext]_vars

(***************************************************************************)
(* A session that mixes the two calls: train() until the training set is   *)
(* used up, and test_network() between the train() calls.                  *)
(***************************************************************************)
\* The simulated time one complete train() call takes: the trial run and
\* train_step teaching runs.
train_call_time == cycle_time + train_step * train_time

\* The client calls test_network whenever the trainer is idle: as a dry run
\* at any point of the session, and without restoring the network at most
\* once in a session, before or after any number of complete train() calls.
TestCallInSession ==
    /\ pc = "idle"
    /\ \E dry_run \in BOOLEAN :
        /\ dry_run \/ simulator.t % train_call_time = 0
        /\ begin_test(dry_run)
    /\ call' = "test_network"
    /\ at_call' = simulator
    /\ UNCHANGED <<synvars, toolvars, parameters, backup, reportvars, consumed,
                   train_set, test_set, progress_results, image,
                   indices, events, marks, teach_iter>>

\* The training samples of a session: one that encodes to no spike and one
\* with a lit pixel.  The test images are blank.
SessionSamples == {Sample(0, BlankMap), Sample(0, <<<<200, 0>>>>)}

SessionInit ==
    /\ syn = NewSynapse(0) /\ now = 0 /\ fired = {}
    /\ AsConfigured
    /\ \E trs \in SeqsUpTo(SessionSamples, MaxTrain),
          w0 \in TrainerInitialWeights : NewTrainer(trs, ReportTestSet, w0)

SessionNext == Next \/ TestCallInSession

SpecSession == SessionInit /\ [][SessionNext]_vars

(***************************************************************************)
(* A client of NeuronPrep on its own: customize() calls on the Prepable    *)
(* classes, each followed by at most one with_event and one with_constant  *)
(* and closed by create().  No trainer is built.                           *)
(***************************************************************************)
\* with_event calls: with code and schedule, with an order only, with
\* neither.
EventCalls ==
    {[name |-> "depress", cond |-> "depress == 1", code |-> "v = v_trigger",
      when |-> "start", order |-> ""],
     [name |-> "hold", cond |-> "hold == 1", code |-> "", when |-> "",
      order |-> "1"],
     [name |-> "probe", cond |-> "v > v_rest", code |-> "", when |-> "",
      order |-> ""]}

\* with_constant calls: a new name, and a name of the class namespace.
ConstantCalls == {[name |-> "k", value |-> "1"],
                  [name |-> "v_rest", value |-> "-70*mV"]}

PrepInit ==
    /\ syn = NewSynapse(0) /\ now = 0 /\ fired = {}
    /\ AsConfigured
    /\ TrainerFields(<<>>, TrainerTestSet, 200)
    /\ prep = NoPreps

\* create() has not been called on customization p yet.
Open(p) == \A g \in DOMAIN prep.groups : prep.groups[g].prep # p

Customize ==
    /\ Len(prep.preps) < MaxPreps
    /\ \E cls \in PrepClasses : prep' = customize(prep, cls)
    /\ UNCHANGED <<synvars, trainervars, arg, ret>>

WithEvent ==
    /\ \E p \in DOMAIN prep.preps, e \in EventCalls :
          /\ Open(p)
          /\ prep.preps[p].with_events = {}
          /\ prep' = with_event(prep, p, e)
    /\ UNCHANGED <<synvars, trainervars, arg, ret>>

WithConstant ==
    /\ \E p \in DOMAIN prep.preps, c \in ConstantCalls :
          /\ Open(p)
          /\ prep.preps[p].with_constants = {}
          /\ prep' = with_constant(prep, p, c.name, c.value)
    /\ UNCHANGED <<synvars, trainervars, arg, ret>>

Create ==
    /\ \E p \in DOMAIN prep.preps :
          /\ Open(p)
          /\ prep' = create(prep, p)
    /\ UNCHANGED <<synvars, trainervars, arg, ret>>

PrepNext == Customize \/ WithEvent \/ WithConstant \/ Create

SpecPrep == PrepInit /\ [][PrepNext]_vars

(***************************************************************************)
(* One synapse under any sequence of pre and post spikes.                  *)
(***************************************************************************)
\* rand() * w_max
InitialWeights == {0, 7, 200, 395}

SynInit ==
    /\ TrainerIdle
    /\ syn \in {NewSynapse(w0) : w0 \in InitialWeights}
    /\ now = 0
    /\ fired = {}

\* A presynaptic spike reaches the synapse at time now.
PreSpike ==
    /\ "pre" \notin fired
    /\ syn' = on_pre_eqs(syn, now)
    /\ fired' = fired \cup {"pre"}
    /\ UNCHANGED now
    /\ UNCHANGED trainervars
    /\ UNCHANGED toolvars

\* A postsynaptic spike reaches the synapse at time now.
PostSpike ==
    /\ "post" \notin fired
    /\ syn' = on_post_eqs(syn, now)
    /\ fired' = fired \cup {"post"}
    /\ UNCHANGED now
    /\ UNCHANGED trainervars
    /\ UNCHANGED toolvars

\* The simulation moves to the next timestep.
SynTick ==
    /\ now < MaxSynT
    /\ now' = now + 1
    /\ fired' = {}
    /\ UNCHANGED syn
    /\ UNCHANGED trainervars
    /\ UNCHANGED toolvars

SynNext == PreSpike \/ PostSpike \/ SynTick

SpecSyn == SynInit /\ [][SynNext]_vars

(***************************************************************************)
(* C1: from its initial weight and after any sequence of pre and post      *)
(* spike updates at non-decreasing times, the weight of a synapse          *)
(* satisfies 0 <= w <= w_max.                                              *)
(***************************************************************************)
C1_WeightInRange == 0 <= syn.w /\ syn.w <= w_max

\* The weight sits at w_max after a postsynaptic spike that followed a
\* presynaptic one: the potentiation went as far as the clip lets it.
C1_Witness ==
    /\ syn.w = w_max
    /\ syn.t_prs >= 0 /\ syn.t_pos > syn.t_prs
    /\ syn.P > 0


(***************************************************************************)
(* What the claims speak of.                                               *)
(***************************************************************************)
\* A timestep of the run in progress has been executed; StepElapsed is the
\* time that had elapsed since the start of the run when it began.
StepDone == pc \in {"trial", "teach", "test"} /\ simulator.t > run.sim_start
StepElapsed == simulator.t - dt - run.sim_start

Flagged(flag) == {n \in Out : flag[n] = 1}
NoFlags(n) == /\ simulator.potentiate[n] = 0
              /\ simulator.depress[n] = 0
              /\ simulator.hold[n] = 0

\* The spiking and non-spiking lists the trial run of the train() call at
\* hand returned, before _set_markers changed them.
TrialIds == get_class_spike_ids(RunData(simulator, run), class_size, class_amount)

(***************************************************************************)
(* C2: in every teaching run, a neuron whose potentiate flag is 1 is       *)
(* forced to the trigger voltage at the timesteps where the time elapsed   *)
(* since the start of the run is T03 and T13, a neuron whose depress flag  *)
(* is 1 at T01 and T11, and a neuron whose hold flag is 1 at T10.          *)
(***************************************************************************)
C2_TeacherFiresOnSchedule ==
    (pc = "teach" /\ StepDone) =>
        /\ StepElapsed \in {T03, T13}
              => Flagged(simulator.potentiate) \subseteq events.potentiate
        /\ StepElapsed \in {T01, T11}
              => Flagged(simulator.depress) \subseteq events.depress
        /\ StepElapsed = T10
              => Flagged(simulator.hold) \subseteq events.hold

(***************************************************************************)
(* C3: a teacher event never forces a neuron whose flag of that event is   *)
(* 0, and never fires at a timestep of a teaching run whose elapsed time   *)
(* is not one of the instants of that event.                               *)
(***************************************************************************)
C3_TeacherEventsGated ==
    StepDone =>
        /\ events.depress \subseteq Flagged(simulator.depress)
        /\ events.potentiate \subseteq Flagged(simulator.potentiate)
        /\ events.hold \subseteq Flagged(simulator.hold)
        /\ pc = "teach" =>
            /\ events.depress # {} => StepElapsed \in {T01, T11}
            /\ events.potentiate # {} => StepElapsed \in {T03, T13}
            /\ events.hold # {} => StepElapsed = T10

\* The timestep at T03 of a teaching run was executed with a neuron flagged
\* for potentiation and another one not flagged.
C3_Witness ==
    /\ pc = "teach" /\ StepDone /\ StepElapsed = T03
    /\ Flagged(simulator.potentiate) # {}
    /\ Flagged(simulator.potentiate) # Out
    /\ Flagged(simulator.depress) # {}

C5_EnoughActiveAllHold ==
    pc = "marked" =>
        LET target == image.class
        IN  Len(TrialIds.spiking[target]) >= active_threshold =>
              \A n \in Block(target) :
                 simulator.potentiate[n] = 0 /\ simulator.hold[n] = 1

C5_Witness ==
    /\ pc = "marked"
    /\ Len(TrialIds.spiking[image.class]) >= active_threshold
    /\ \A n \in Block(image.class) : simulator.hold[n] = 1

(***************************************************************************)
(* C6: when _set_markers returns, every class other than the image's with  *)
(* more spiking neurons than inactive_threshold has exactly that excess of *)
(* neurons marked depress, all from its spiking list; every other neuron   *)
(* of such a class, and every neuron of the other classes at or below the  *)
(* threshold, has no flag at all.                                          *)
(***************************************************************************)
C6_ExcessDepressed ==
    pc = "marked" =>
        \A c \in Classes \ {image.class} :
            LET number_spikes == Len(TrialIds.spiking[c])
                dep == Block(c) \cap Flagged(simulator.depress)
            IN  /\ number_spikes > inactive_threshold =>
                      /\ Cardinality(dep) = number_spikes - inactive_threshold
                      /\ dep \subseteq Elems(TrialIds.spiking[c])
                /\ number_spikes <= inactive_threshold => dep = {}
                /\ \A n \in dep :
                      simulator.potentiate[n] = 0 /\ simulator.hold[n] = 0
                /\ \A n \in Block(c) \ dep : NoFlags(n)

\* A class other than the image's had two spiking neurons, both depressed,
\* and another neuron of a class other than the image's has no flag.
C6_Witness ==
    /\ pc = "marked"
    /\ \E c \in Classes \ {image.class} :
          /\ Len(TrialIds.spiking[c]) - inactive_threshold >= 2
          /\ Cardinality(Block(c) \cap Flagged(simulator.depress)) >= 2

(***************************************************************************)
(* C7: at every point of every training cycle no output neuron has more    *)
(* than one of the flags potentiate, depress and hold set to 1.            *)
(***************************************************************************)
C7_FlagsExclusive ==
    \A n \in Out :
        simulator.potentiate[n] + simulator.depress[n] + simulator.hold[n] <= 1

\* A teaching run with the three flags in use, on different neurons.
C7_Witness ==
    /\ pc = "teach"
    /\ Flagged(simulator.potentiate) # {}
    /\ Flagged(simulator.depress) # {}
    /\ Flagged(simulator.hold) # {}

(***************************************************************************)
(* C8: after every training application the potentiate, depress and hold   *)
(* flags of all output neurons are 0, and they are 0 when the next sample  *)
(* is taken up.                                                            *)
(***************************************************************************)
C8_FlagsResetAfterTraining ==
    pc \in {"trained", "idle", "trial"} => \A n \in Out : NoFlags(n)

\* _apply_training has returned for a sample whose markers used the three
\* flags.
C8_Witness ==
    /\ pc = "trained"
    /\ marks.hold_list # <<>>
    /\ Len(marks.hold_list) < class_size
    /\ \E c \in Classes \ {image.class} :
          Len(marks.spiking_classes[c]) + Len(marks.non_spiking_classes[c])
              < class_size

(***************************************************************************)
(* C9: train() on a sample whose spike encoding is empty ends with the     *)
(* TrainerError of an empty picture before any run, marker or teaching:    *)
(* the simulator is as it was before the call.                             *)
(***************************************************************************)
C9_EmptyPictureFailsEarly ==
    (/\ call = "train"
     /\ image2spikes(image.pixelmap, 0).indices = <<>>)
        => /\ pc = "returned"
           /\ raised.type = "TrainerError"
           /\ simulator = at_call

\* train() failed on an empty picture after an earlier sample was trained.
C9_Witness ==
    /\ call = "train" /\ pc = "returned"
    /\ raised.type = "TrainerError"
    /\ simulator.t > 0
    /\ \E c \in DOMAIN simulator.synapses : simulator.synapses[c].t_prs >= 0

(***************************************************************************)
(* C10: test_network records a sample as a success if and only if the      *)
(* class of its label has strictly more active neurons than every other    *)
(* class; a tie for the maximum, the all-zero case included, is a failure. *)
(***************************************************************************)
StrictlyGreatest(run_results, label) ==
    \A c \in Classes \ {label} : run_results[label] > run_results[c]

C11_DryRunLeavesNoTrace ==
    (/\ call = "test_network" /\ pc = "returned"
     /\ results.dry_run /\ raised = NoError)
        => simulator = at_call

\* A dry run completed in which output neurons spiked on a sample.
C11_Witness ==
    /\ call = "test_network" /\ pc = "returned"
    /\ results.dry_run /\ raised = NoError
    /\ \E k \in DOMAIN results.logged : \E c \in Classes :
          results.logged[k][c] > 0

(***************************************************************************)
(* C12: the state test_network(dry_run=True) captured before the           *)
(* evaluation is restored whatever the outcome of the evaluation, an       *)
(* evaluation that ends with an exception included.                        *)
(***************************************************************************)
C12_DryRunRestoredOnError ==
    (call = "test_network" /\ pc = "returned" /\ results.dry_run)
        => simulator = at_call

(***************************************************************************)
(* C13: with progress monitoring active with step k, train() ends with the *)
(* periodic evaluation exactly when the number of samples consumed so far  *)
(* is a multiple of k; the evaluation is a dry run, and the pair appended  *)
(* to progress_results is (samples consumed so far, rate of the            *)
(* evaluation).                                                            *)
(***************************************************************************)
Evaluated == results.logged # <<>>
Last(list) == list[Len(list)]

C13_EvaluationEveryKConsumed ==
    LET k == parameters.progress_monitoring.step
    IN  /\ (call = "train" /\ pc = "test")
              => consumed % k = 0 /\ results.dry_run
        /\ (call = "train" /\ pc = "returned" /\ raised = NoError)
              => /\ Evaluated <=> consumed % k = 0
                 /\ Evaluated =>
                      /\ Last(progress_results.steps) = consumed
                      /\ Last(progress_results.values) = results.rate

(***************************************************************************)
(* C14: once the trainer is in offline mode, no later train() call         *)
(* connects or sends to the reporting server, and the trainer stays        *)
(* offline, while training and the periodic evaluation go on.              *)
(***************************************************************************)
C14_OfflineNeverRetries ==
    [][offline_mode => (offline_mode' /\ ws_log' = ws_log)]_vars

\* A push was refused, and a later train() call evaluated without a push.
C14_Witness ==
    /\ offline_mode
    /\ ws_log # <<>>
    /\ call = "train" /\ pc = "returned" /\ Evaluated
    /\ Len(progress_results.steps) > Len(ws_log)

\* The train() call at hand pushed its result on the reporting channel.
PushedNow ==
    /\ call = "train" /\ pc = "returned" /\ Evaluated
    /\ ws_log # <<>>
    /\ Last(ws_log).id = train_data_size - Len(train_set)

(***************************************************************************)
(* C15: a push on the reporting channel that fails because the channel is  *)
(* unreachable in any way is caught in train(): the call returns without   *)
(* an exception and the trainer is in offline mode.                        *)
(***************************************************************************)
C15_ChannelFailuresRecovered ==
    (PushedNow /\ Last(ws_log).outcome \in {"refused", "failed"})
        => raised = NoError /\ offline_mode

(***************************************************************************)
(* C16: a push the server answers with a falsy payload ends train() with   *)
(* the TrainerError of the rejection, and does not switch the trainer to   *)
(* offline mode.                                                           *)
(***************************************************************************)
C16_RejectionSurfaced ==
    (PushedNow /\ Last(ws_log).outcome = "rejected")
        => raised = RejectedError /\ ~offline_mode

\* A push was rejected after an earlier one had been accepted.
C16_Witness ==
    /\ PushedNow /\ Last(ws_log).outcome = "rejected"
    /\ Len(ws_log) > 1 /\ ws_log[1].outcome = "accepted"

(***************************************************************************)
(* C17: restore() after store() yields a trainer whose remaining training  *)
(* queue, test set and progress history are those of the stored trainer at *)
(* the time of store(), with a simulator in the state of the stored        *)
(* checkpoint; its next train() therefore pops the sample the stored       *)
(* trainer would have popped next.                                         *)
(***************************************************************************)
C17_RestoreResumesStored ==
    (call = "restore" /\ pc = "returned" /\ raised = NoError)
        => /\ train_set = backup.train_set
           /\ test_set = backup.test_set
           /\ progress_results = backup.progress_results
           /\ simulator = backup.network

\* A trainer stored after it had trained on a sample, with samples left, was
\* restored on a network built anew.
C17_Witness ==
    /\ call = "restore" /\ pc = "returned" /\ raised = NoError
    /\ consumed > 0
    /\ train_set # <<>>
    /\ simulator.t > 0
    /\ \E c \in DOMAIN simulator.synapses : simulator.synapses[c].t_prs >= 0

(***************************************************************************)
(* C18: a train() call that does not fail goes through Encode, one trial   *)
(* run of cycle_time with recording, the marker assignment, exactly        *)
(* train_step teaching runs of train_time each presenting the pattern of   *)
(* the sample, the flag reset, and then the optional evaluation; no marker *)
(* is set before the trial run has ended and no teaching run starts before *)
(* the markers are assigned.                                               *)
(***************************************************************************)
Marking == {"mark", "pick_potentiate", "pick_depress"}
RunLength == run.end - run.sim_start

TrainStepShape ==
    call = "train" =>
        /\ pc = "trial" =>
              /\ RunLength = cycle_time /\ run.recording
              /\ indices = image2spikes(image.pixelmap, 0).indices
              /\ simulator.indices = indices
              /\ \A n \in Out : NoFlags(n)
        /\ pc = "teach" =>
              /\ RunLength = train_time /\ ~run.recording
              /\ train_time = 2 * cycle_time
              /\ teach_iter < train_step
              /\ simulator.indices = indices \o indices

TrainStepOrder ==
    call' = "train" =>
        /\ pc' = "trial" => pc \in {"idle", "trial"}
        /\ pc' \in Marking =>
              \/ pc = "trial" /\ simulator.t = run.end
              \/ pc \in Marking
        /\ pc' = "marked" => pc \in Marking
        /\ pc' = "teach" =>
              \/ pc = "marked" /\ teach_iter' = 0
              \/ pc = "teach" /\ (teach_iter' # teach_iter => simulator.t = run.end)
        /\ pc' = "trained" =>
              /\ pc = "teach" /\ simulator.t = run.end
              /\ teach_iter' = train_step
              /\ \A n \in Out : /\ simulator'.potentiate[n] = 0
                                 /\ simulator'.depress[n] = 0
                                 /\ simulator'.hold[n] = 0
        /\ pc' = "test" => pc \in {"trained", "test"}
        /\ (pc' = "returned" /\ raised' = NoError) => pc \in {"trained", "test"}

C18_TrainStepOrder == []TrainStepShape /\ [][TrainStepOrder]_vars

\* A train() call went through all its steps and is in its evaluation.
C18_Witness ==
    /\ call = "train" /\ pc = "test"
    /\ teach_iter = train_step
    /\ simulator.t > at_call.t + cycle_time + train_step * train_time

(***************************************************************************)
(* C19: count_spikes returns, for each neuron in population order, the     *)
(* number of its timestamps t with start <= t < end; the counts sum to the *)
(* number of timestamps of all neurons in the window, and all are 0 when   *)
(* start = end.                                                            *)
(***************************************************************************)
InWindow(train, start, end) ==
    {k \in DOMAIN train : start <= train[k] /\ train[k] < end}

RECURSIVE SumUpTo(_, _)
SumUpTo(f, n) == IF n < 0 THEN 0 ELSE f[n] + SumUpTo(f, n - 1)

C19_CountSpikesWindow ==
    arg.f = "count_spikes" =>
        LET trains == arg.spike_train
            last == class_amount - 1
        IN  /\ DOMAIN ret = DOMAIN trains
            /\ \A i \in DOMAIN trains :
                  ret[i] = Cardinality(InWindow(trains[i], arg.start, arg.end))
            /\ SumUpTo(ret, last) =
                  Cardinality({p \in (DOMAIN trains) \X (1..(MaxSpikeTime + 1)) :
                                 /\ p[2] \in DOMAIN trains[p[1]]
                                 /\ p[2] \in InWindow(trains[p[1]], arg.start,
                                                       arg.end)})
            /\ arg.start = arg.end => \A i \in DOMAIN trains : ret[i] = 0

\* A neuron with a spike before the window, one at its start and one at its
\* end, next to a neuron with another count.
C19_Witness ==
    /\ arg.f = "count_spikes"
    /\ \E i, j \in DOMAIN ret :
          /\ Len(arg.spike_train[i]) = 3
          /\ arg.spike_train[i][1] < arg.start
          /\ arg.spike_train[i][2] = arg.start
          /\ arg.spike_train[i][3] = arg.end
          /\ ret[i] = 1
          /\ ret[j] # ret[i]

(***************************************************************************)
(* C20: get_class_spike_ids returns for each class block two lists that    *)
(* are disjoint, without repetition, whose lengths sum to class_size and   *)
(* whose union is the index range of the block, the spiking list holding   *)
(* exactly the indices with count > 0.                                     *)
(***************************************************************************)
C20_ClassSpikeIdsPartition ==
    arg.f = "get_class_spike_ids" =>
        \A c \in Classes :
            LET sp == ret.spiking[c]
                ns == ret.non_spiking[c]
            IN  /\ Elems(sp) \cap Elems(ns) = {}
                /\ Len(sp) + Len(ns) = class_size
                /\ Cardinality(Elems(sp)) = Len(sp)
                /\ Cardinality(Elems(ns)) = Len(ns)
                /\ Elems(sp) \cup Elems(ns) = Block(c)
                /\ Elems(sp) = {n \in Block(c) : arg.spikes[n] > 0}

\* A block with a spiking and a silent member, next to an all-silent one.
C20_Witness ==
    /\ arg.f = "get_class_spike_ids"
    /\ \E c, d \in Classes :
          /\ ret.spiking[c] # <<>> /\ ret.non_spiking[c] # <<>>
          /\ ret.spiking[d] = <<>>
    /\ \E n \in Out : arg.spikes[n] = MaxCount

(***************************************************************************)
(* C21: get_class_spike_number returns for each class block the number of  *)
(* its member neurons with count > 0 (distinct active neurons, not total   *)
(* spikes), which is the length of that class's spiking list returned by   *)
(* get_class_spike_ids on the same counts.                                 *)
(***************************************************************************)
C21_ClassSpikeNumberCountsNeurons ==
    arg.f = "get_class_spike_number" =>
        \A c \in Classes :
            /\ ret[c] = Cardinality({n \in Block(c) : arg.spikes[n] > 0})
            /\ ret[c] = Len(get_class_spike_ids(arg.spikes, class_size,
                                                class_amount).spiking[c])

\* A block whose only active neuron spiked more than once, so that the
\* number of active neurons differs from the number of spikes.
C21_Witness ==
    /\ arg.f = "get_class_spike_number"
    /\ \E c \in Classes :
          /\ ret[c] = 1
          /\ \E n \in Block(c) : arg.spikes[n] = MaxCount /\ MaxCount > 1
    /\ \E d \in Classes : ret[d] = class_size

(***************************************************************************)
(* C22: image2spikes returns as indices exactly the row-major scan         *)
(* positions of the pixels strictly greater than 128, in increasing order  *)
(* and each once, and a times list of the same length whose entries all    *)
(* equal spike_time; an image whose pixels are all <= 128 gives two empty  *)
(* sequences and an all-255 image of N pixels gives indices 0..N-1.        *)
(***************************************************************************)
\* The scan position of the pixel in row r, column c of a pixel map.
ScanPosition(pixel_map, r, c) == (r - 1) * Len(pixel_map[1]) + (c - 1)

PixelCount(pixel_map) ==
    IF pixel_map = <<>> THEN 0 ELSE Len(pixel_map) * Len(pixel_map[1])

C22_Image2SpikesRowMajor ==
    arg.f = "image2spikes" =>
        LET pm == arg.pixel_map
            lit == {ScanPosition(pm, r, c) : <<r, c>> \in
                       {p \in (DOMAIN pm) \X (1..MaxPixels + 1) :
                           /\ p[2] \in DOMAIN pm[p[1]]
                           /\ pm[p[1]][p[2]] > 128}}
            dark == \A r \in DOMAIN pm : \A c \in DOMAIN pm[r] : pm[r][c] <= 128
            bright == \A r \in DOMAIN pm : \A c \in DOMAIN pm[r] : pm[r][c] = 255
        IN  /\ Elems(ret.indices) = lit
            /\ \A i, j \in DOMAIN ret.indices :
                  i < j => ret.indices[i] < ret.indices[j]
            /\ Len(ret.times) = Len(ret.indices)
            /\ \A i \in DOMAIN ret.times : ret.times[i] = arg.spike_time
            /\ dark => ret.indices = <<>> /\ ret.times = <<>>
            /\ bright => ret.indices = [i \in 1..PixelCount(pm) |-> i - 1]

\* A map of several rows and columns with a pixel at the threshold, one just
\* above it in the first row and a lit pixel in a later row, at a spike time
\* other than the default.
C22_Witness ==
    /\ arg.f = "image2spikes"
    /\ Len(arg.pixel_map) > 1 /\ Len(arg.pixel_map[1]) > 1
    /\ arg.pixel_map[1][1] = 128 /\ arg.pixel_map[1][2] = 129
    /\ arg.pixel_map[2][1] = 255
    /\ arg.spike_time > 0
    /\ ret.indices = <<1, Len(arg.pixel_map[1])>>
    /\ ret.times = <<arg.spike_time, arg.spike_time>>

(***************************************************************************)
(* C23: with the configured parameters, after any sequence of spikes a     *)
(* presynaptic spike update never increases the weight and a postsynaptic  *)
(* spike update never decreases it.                                        *)
(***************************************************************************)
C23_PreWeakensPostStrengthens ==
    [][/\ ("pre" \in fired' /\ "pre" \notin fired) => syn'.w <= syn.w
       /\ ("post" \in fired' /\ "post" \notin fired) => syn'.w >= syn.w]_vars

\* A first presynaptic spike that follows a recorded postsynaptic spike: no
\* potentiation can have happened (P holds a single increment), and the
\* weight lies below the initial weight 200 by at most one depression step.
C23_Witness ==
    /\ "pre" \in fired /\ syn.t_prs = now
    /\ 0 <= syn.t_pos /\ syn.t_pos < now
    /\ syn.P = ALTP
    /\ syn.w < 200 /\ syn.w >= 200 - aLTD

(***************************************************************************)
(* C24: a presynaptic spike at time t changes the weight only if a         *)
(* postsynaptic spike is on record with 0 <= t_pos < t, and a postsynaptic *)
(* spike at time t only if a presynaptic spike is on record with           *)
(* 0 <= t_prs < t; a synapse that has seen spikes on one side only keeps   *)
(* its weight, and a pre and a post spike of the same instant cause no     *)
(* weight change through each other, in either processing order.           *)
(***************************************************************************)
C24_WeightChangeNeedsEarlierSpike ==
    [][/\ ("pre" \in fired' /\ "pre" \notin fired) =>
             /\ syn'.w # syn.w => (0 <= syn.t_pos /\ syn.t_pos < now)
             /\ "post" \in fired => syn'.w = syn.w
       /\ ("post" \in fired' /\ "post" \notin fired) =>
             /\ syn'.w # syn.w => (0 <= syn.t_prs /\ syn.t_prs < now)
             /\ "pre" \in fired => syn'.w = syn.w
       /\ (syn'.t_prs < 0 \/ syn'.t_pos < 0) => syn'.w = syn.w]_vars

\* The first presynaptic and the first postsynaptic spike of a synapse fall
\* in the same timestep, and the weight is still the initial one.
C24_Witness ==
    /\ fired = {"pre", "post"}
    /\ syn.t_prs = now /\ syn.t_pos = now /\ now > 0
    /\ syn.P = ALTP /\ syn.Q = ALTD
    /\ syn.w = 200

(***************************************************************************)
(* C27: on the first-ever presynaptic spike of a synapse (t_prs still the  *)
(* negative sentinel) at time t no decay is applied: P becomes its         *)
(* previous value plus ALTP and t_prs becomes t; symmetrically, on the     *)
(* first-ever postsynaptic spike Q becomes its previous value plus ALTD    *)
(* and t_pos becomes t.  After any pre (post) spike at time t, t_prs       *)
(* (t_pos) equals t.                                                       *)
(***************************************************************************)
C27_FirstSpikeNoDecay ==
    [][/\ ("pre" \in fired' /\ "pre" \notin fired) =>
             /\ syn'.t_prs = now
             /\ syn.t_prs < 0 => syn'.P = syn.P + ALTP
             /\ syn.t_prs >= 0 =>
                   syn'.P = Mul(syn.P, exp(now - syn.t_prs, tau_LTP)) + ALTP
       /\ ("post" \in fired' /\ "post" \notin fired) =>
             /\ syn'.t_pos = now
             /\ syn.t_pos < 0 => syn'.Q = syn.Q + ALTD
             /\ syn.t_pos >= 0 =>
                   syn'.Q = Mul(syn.Q, exp(now - syn.t_pos, tau_LTD)) + ALTD]_vars

\* A second postsynaptic spike, later than the first (Q holds a decayed
\* increment and a fresh one), on a synapse whose first presynaptic spike
\* came at a time other than 0.
C27_Witness ==
    /\ "post" \in fired /\ syn.t_pos = now
    /\ syn.Q < ALTD /\ syn.Q > 2 * ALTD
    /\ syn.P = ALTP /\ syn.t_prs > 0

(***************************************************************************)
(* C25: every train() call removes exactly one sample from the training    *)
(* set, the one at its front, and the rest of the queue keeps its order;   *)
(* the test set is never changed by train(), by the periodic evaluation or *)
(* by test_network().                                                      *)
(***************************************************************************)
C25_TrainPopsFrontOnly ==
    [][/\ test_set' = test_set
       /\ (pc = "idle" /\ call' = "train") =>
             (train_set # <<>> /\ train_set' = Tail(train_set))
       /\ ~(pc = "idle" /\ call' = "train") => train_set' = train_set]_vars

\* A test_network() call that is not a dry run has returned after a train()
\* call took the first of two different samples: the second one is left and
\* the test set is the one the trainer was built with.
C25_Witness ==
    /\ pc = "returned" /\ call = "test_network" /\ ~results.dry_run
    /\ consumed = 1 /\ Len(train_set) = 1
    /\ train_set[1] = Sample(0, BlankMap)
    /\ test_set = ReportTestSet
    /\ simulator.t > train_call_time

(***************************************************************************)
(* C26: in each of the two exposures of a teaching run the depress teacher *)
(* instant precedes the input presentation, which precedes the potentiate  *)
(* teacher instant (T01 < T02 < T03 and T10 < T11 < T12 < T13, each        *)
(* second-exposure instant being cycle_time plus its first-exposure        *)
(* offset), and all these instants lie inside the teaching run's duration  *)
(* train_time; a depress event can fire only before the input spikes of    *)
(* its exposure and a potentiate event only after them.                    *)
(***************************************************************************)
\* The output group at hand with t_rel = x and the three flags of neuron n
\* set (the conditions are the same for every neuron).
Armed(x, n) == [simulator EXCEPT !.t_rel = x,
                                 !.potentiate[n] = 1,
                                 !.depress[n] = 1,
                                 !.hold[n] = 1]

C26_TeacherInstantsOrdered ==
    pc = "teach" =>
        /\ T01 < T02 /\ T02 < T03
        /\ T10 < T11 /\ T11 < T12 /\ T12 < T13
        /\ T10 = cycle_time + T00 /\ T11 = cycle_time + T01
        /\ T12 = cycle_time + T02 /\ T13 = cycle_time + T03
        /\ 0 < T00 /\ T13 < train_time /\ T03 < cycle_time
        /\ RunLength = train_time
        /\ {x \in 0..train_time : depress_cond(Armed(x, 0), 0)} = {T01, T11}
        /\ {x \in 0..train_time : potentiate_cond(Armed(x, 0), 0)} = {T03, T13}
        /\ {x \in 0..train_time : hold_cond(Armed(x, 0), 0)} = {T10}
        /\ \A k \in DOMAIN simulator.times :
              simulator.times[k] - run.sim_start =
                  IF k <= Len(indices) THEN T02 ELSE T12
        /\ StepDone =>
              /\ events.depress # {} => StepElapsed \in {T01, T11}
              /\ events.potentiate # {} => StepElapsed \in {T03, T13}
              /\ InputSpikes(simulator, simulator.t - dt) # {}
                    => StepElapsed \in {T02, T12}

\* The second presentation of the pattern in a teaching run, T12 after its
\* start, with a neuron flagged for depression and one for potentiation.
C26_Witness ==
    /\ pc = "teach" /\ StepDone /\ StepElapsed = T12
    /\ InputSpikes(simulator, simulator.t - dt) # {}
    /\ Flagged(simulator.depress) # {}
    /\ Flagged(simulator.potentiate) # {}

(***************************************************************************)
(* C28: the empty-input error raised by train() carries the position of    *)
(* the offending sample: its 'picture' value equals the 1-based position   *)
(* of that sample in the sequence of training samples the trainer was      *)
(* given, for a training set of any length.                                *)
(***************************************************************************)
C28_PictureIsPosition ==
    (call = "train" /\ raised.type = "TrainerError") =>
        raised.picture = consumed

(***************************************************************************)
(* C29: the trial run of train() only observes the network: every synaptic *)
(* weight is the same at the end of the trial run, and at each of its      *)
(* timesteps, as at its start, whatever input and output spikes occur.     *)
(***************************************************************************)
C29_TrialRunKeepsWeights ==
    (call = "train" /\ pc = "trial") =>
        \A c \in DOMAIN simulator.synapses :
            simulator.synapses[c].w = at_call.synapses[c].w

(***************************************************************************)
(* C30: over any sequence of train() and test_network() calls on a freshly *)
(* built trainer, all three flags of every output neuron are 0 throughout  *)
(* every trial run and every evaluation cycle, so that no teacher event    *)
(* forces a spike outside a teaching run, the periodic evaluation that     *)
(* follows a training application included.                                *)
(***************************************************************************)
C30_NoFlagsOutsideTeaching ==
    pc \in {"trial", "test"} =>
        /\ \A n \in Out : NoFlags(n)
        /\ \A x \in {T01, T03, T10, T11, T13} : \A n \in Out :
              /\ ~depress_cond([simulator EXCEPT !.t_rel = x], n)
              /\ ~potentiate_cond([simulator EXCEPT !.t_rel = x], n)
              /\ ~hold_cond([simulator EXCEPT !.t_rel = x], n)
        /\ StepDone => Forced(events) = {}

\* An evaluation cycle of the periodic evaluation is in progress, in a
\* train() call whose markers held some neurons and depressed another, after
\* an earlier test_network() call that was not a dry run.
C30_Witness ==
    /\ call = "train" /\ pc = "test" /\ StepDone
    /\ marks.hold_list # <<>>
    /\ \E c \in Classes \ {image.class} :
          Len(marks.spiking_classes[c]) + Len(marks.non_spiking_classes[c])
              < class_size
    /\ stored.t > train_call_time
    /\ stored.t % train_call_time # 0

(***************************************************************************)
(* C31: IONetwork.run(duration, record_output_spikes=True) started at any  *)
(* simulation time returns, for each output neuron, exactly the number of  *)
(* spikes that neuron emitted during that run: the monitor of the run      *)
(* holds no spike of an earlier run, and no spike of the run falls outside *)
(* the counting window, whose end is the start time plus the clock after   *)
(* the run.                                                                *)
(***************************************************************************)
C31_RunCountsItsOwnSpikes ==
    (pc \in {"trial", "test"} /\ run.recording /\ simulator.t = run.end) =>
        \A n \in Out :
            /\ RunData(simulator, run)[n] = Len(run.trains[n])
            /\ \A k \in DOMAIN run.trains[n] :
                  /\ run.sim_start <= run.trains[n][k]
                  /\ run.trains[n][k] < run.end
            /\ RunData(simulator, run)[n] =
                  Cardinality({t \in run.sim_start..(run.end - 1) :
                                  \E k \in DOMAIN run.trains[n] :
                                      run.trains[n][k] = t})

\* A recorded run that started after earlier runs has ended: a neuron that
\* spiked in it is counted once, and another neuron, which spiked in an
\* earlier run (its synapses hold a postsynaptic spike time before the start
\* of this run), is counted 0.
C31_Witness ==
    /\ pc \in {"trial", "test"} /\ run.recording /\ simulator.t = run.end
    /\ run.sim_start > 0
    /\ \E n, m \in Out :
          /\ RunData(simulator, run)[n] = 1
          /\ RunData(simulator, run)[m] = 0
          /\ \E c \in DOMAIN simulator.synapses :
                /\ c[2] = m
                /\ simulator.synapses[c].t_pos >= 0
                /\ simulator.synapses[c].t_pos < run.sim_start

(***************************************************************************)
(* C32: two NeuronPrep customizations obtained from separate customize()   *)
(* calls are independent: an event (definition, code or schedule) or a     *)
(* namespace constant added through one customization is not present in a  *)
(* neuron group created from the other, nor in the class defaults.         *)
(***************************************************************************)
C32_CustomizationsIndependent ==
    /\ prep.events = NoPreps.events
    /\ prep.namespace = NoPreps.namespace
    /\ \A g \in DOMAIN prep.groups :
          LET group == prep.groups[g]
              own == prep.preps[group.prep]
          IN  /\ DOMAIN group.events \subseteq own.with_events
              /\ DOMAIN group.codes \subseteq own.with_events
              /\ DOMAIN group.scheduling \subseteq own.with_events
              /\ \A k \in DOMAIN group.namespace \ own.with_constants :
                    /\ k \in DOMAIN ClassNamespace
                    /\ group.namespace[k] = ClassNamespace[k]

(***************************************************************************)
(* C33: store() never leaves the trainer without its simulator: when       *)
(* store() ends, whether the backup files were written or writing the      *)
(* trainer backup failed, trainer.simulator is the same simulator as       *)
(* before the call.                                                        *)
(***************************************************************************)
C33_StoreKeepsSimulator ==
    (call = "store" /\ pc = "returned" /\ at_call # None) =>
        /\ simulator # None
        /\ simulator = at_call

=============================================================================
